---- MODULE Spec2Model ----
(***************************************************************************)
(* Network topology reconciliation of afterburn: the Packet (bare-metal)   *)
(* provider's parse_network and the Proxmox VE cloud-config provider's     *)
(* networks() / to_interface, over the network model of src/network.rs.    *)
(*                                                                         *)
(* Every operation is a method on an immutable `self`; the state is the    *)
(* object the operation is called on, the DNS state file it reads, and the *)
(* value the last call returned.                                           *)
(***************************************************************************)
EXTENDS Integers, Sequences, FiniteSets, TLC

VARIABLES
    kind,          \* type of the object the operations are called on
    self,          \* the object: its fields as decoded from the metadata
    netif_state,   \* DNS entry of /run/systemd/netif/state, as last read
    out            \* operation last called and the Result it returned

vars == <<kind, self, netif_state, out>>

(***************************************************************************)
(* Bounds of the model.                                                    *)
(***************************************************************************)
MaxIfaces == 2      \* physical descriptors in the Packet metadata
MaxAddrs == 2       \* addresses in the Packet metadata
MaxMode == 7        \* bonding modes 0..MaxMode are tried on short address lists
MaxModeAddrs == 1   \* addresses in the Packet metadata when every mode is tried
MaxEntries == 3     \* entries of the Proxmox VE network-config
MaxSubnets == 2     \* subnets of a Proxmox VE config entry
MaxDevPriority == 1000  \* priorities 0..MaxDevPriority of a named VirtualNetDev
U8_MAX == 255       \* Interface.priority is a u8
MaxItems == 2       \* nameservers, addresses and routes of a rendered Interface
MaxSections == 2    \* custom sections of a rendered VirtualNetDev
MaxAttrAddrs == 3   \* addresses in the Packet metadata when attributes are asked for

(***************************************************************************)
(* Option<T> and Result<T>.                                                *)
(***************************************************************************)
None == <<>>
Some(x) == <<x>>
is_none(o) == o = <<>>
is_some(o) == o # <<>>
unwrap(o) == o[1]

Ok(v) == [ok |-> TRUE, val |-> <<v>>, err |-> ""]
Err(e) == [ok |-> FALSE, val |-> <<>>, err |-> e]
Val(r) == r.val[1]

SeqUpTo(S, n) == UNION {[1..k -> S] : k \in 0..n}

(***************************************************************************)
(* Texts.  A MAC text is the list of the values of its ':'-separated       *)
(* groups; an IP text is its separator, the values of its groups and an    *)
(* optional "/prefix" suffix.  Parsing validates the shape and the ranges. *)
(***************************************************************************)
MacAddr_from_str(s) ==
    IF Len(s) = 6 /\ \A k \in 1..6 : s[k] \in 0..255
    THEN Ok([octets |-> s])
    ELSE Err("InvalidMacAddress")

V4(segs) == [fam |-> "V4", segs |-> segs]
V6(segs) == [fam |-> "V6", segs |-> segs]
is_ipv6(ip) == ip.fam = "V6"

Text(sep, parts) == [sep |-> sep, parts |-> parts, prefix |-> None]
TextCidr(sep, parts, p) == [sep |-> sep, parts |-> parts, prefix |-> Some(p)]

\* the address part of a text, whatever its suffix
ParseGroups(t) ==
    IF t.sep = "." /\ Len(t.parts) = 4 /\ \A k \in 1..4 : t.parts[k] \in 0..255
    THEN Ok(V4(t.parts))
    ELSE IF t.sep = ":" /\ Len(t.parts) = 8 /\ \A k \in 1..8 : t.parts[k] \in 0..65535
    THEN Ok(V6(t.parts))
    ELSE Err("AddrParseError")

IpAddr_from_str(t) ==
    IF is_some(t.prefix) THEN Err("AddrParseError") ELSE ParseGroups(t)

FamilyBits(fam) == IF fam = "V4" THEN 32 ELSE 128
SegmentBits(fam) == IF fam = "V4" THEN 8 ELSE 16

RECURSIVE LeadingOnes(_, _)
LeadingOnes(seg, width) ==
    IF width = 0 THEN 0
    ELSE IF seg \div (2 ^ (width - 1)) = 1
         THEN 1 + LeadingOnes(seg % (2 ^ (width - 1)), width - 1)
         ELSE 0

\* netmask to prefix length: the leading one-bits, provided no bit follows them
ip_mask_to_prefix(mask) ==
    LET w == SegmentBits(mask.fam)
        n == Len(mask.segs)
        full == (2 ^ w) - 1
        partial == {k \in 1..n : mask.segs[k] # full}
    IN  IF partial = {} THEN Ok(n * w)
        ELSE LET k == CHOOSE j \in partial : \A l \in partial : j <= l
                 ones == LeadingOnes(mask.segs[k], w)
             IN  IF /\ mask.segs[k] = (2 ^ w) - (2 ^ (w - ones))
                    /\ \A l \in (k + 1)..n : mask.segs[l] = 0
                 THEN Ok((k - 1) * w + ones)
                 ELSE Err("InvalidNetmask")

IpNetwork_new(ip, prefix) ==
    IF prefix > FamilyBits(ip.fam)
    THEN Err("InvalidCidr")
    ELSE Ok([ip |-> ip, prefix |-> prefix])

IpNetwork_with_netmask(ip, netmask) ==
    LET prefix == ip_mask_to_prefix(netmask)
    IN  IF ~prefix.ok THEN prefix ELSE IpNetwork_new(ip, Val(prefix))

\* "addr/prefix"; a text without suffix is the host network of the address
IpNetwork_from_str(t) ==
    LET ip == ParseGroups(t)
    IN  IF ~ip.ok THEN ip
        ELSE IF is_none(t.prefix) THEN IpNetwork_new(Val(ip), FamilyBits(Val(ip).fam))
        ELSE IpNetwork_new(Val(ip), unwrap(t.prefix))

(***************************************************************************)
(* src/network.rs: bonding modes.                                          *)
(***************************************************************************)
BONDING_MODE_LACP == 4

BONDING_MODES ==
    << <<0, "balance-rr">>, <<1, "active-backup">>, <<2, "balance-xor">>,
       <<3, "broadcast">>, <<4, "802.3ad">>, <<5, "balance-tlb">>,
       <<6, "balance-alb">> >>

\* a lookup that clamps an unknown mode to the last entry of the table
bonding_mode_clamped(mode) ==
    LET hits == {k \in 1..Len(BONDING_MODES) : BONDING_MODES[k][1] = mode}
    IN  IF hits = {} THEN Ok(BONDING_MODES[Len(BONDING_MODES)][2])
        ELSE Ok(BONDING_MODES[CHOOSE k \in hits : \A l \in hits : k <= l][2])

bonding_mode_to_string(mode) ==
    LET hits == {k \in 1..Len(BONDING_MODES) : BONDING_MODES[k][1] = mode}
    IN  IF hits = {} THEN Err("UnknownBondingMode")
        ELSE Ok(BONDING_MODES[CHOOSE k \in hits : \A l \in hits : k <= l][2])

(***************************************************************************)
(* src/network.rs: the model values.                                       *)
(***************************************************************************)
NetworkRoute(destination, gateway) ==
    [destination |-> destination, gateway |-> gateway]

(***************************************************************************)
(* src/providers/packet/mod.rs: PacketProvider.                            *)
(***************************************************************************)
get_dns_servers(state) ==
    IF is_none(state) THEN Err("DnsKeyNotFound")
    ELSE LET ip_strings == unwrap(state)
             parsed == [k \in 1..Len(ip_strings) |-> IpAddr_from_str(ip_strings[k])]
         IN  IF \E k \in 1..Len(ip_strings) : ~parsed[k].ok
             THEN Err("AddrParseError")
             ELSE IF Len(ip_strings) = 0 THEN Err("NoDnsServers")
             ELSE Ok([k \in 1..Len(ip_strings) |-> Val(parsed[k])])

\* a physical Interface that always relaxes the online requirement
PhysicalInterfaceAlwaysNo(i, mac) ==
    [name |-> None, mac_address |-> Some(mac), path |-> None, priority |-> 10,
     nameservers |-> <<>>, ip_addresses |-> <<>>, dhcp |-> None,
     routes |-> <<>>, bond |-> i.bond, unmanaged |-> is_none(i.bond),
     required_for_online |-> Some("no")]

\* the Interface pushed for one physical descriptor
PhysicalInterface(i, mac) ==
    [name |-> None, mac_address |-> Some(mac), path |-> None, priority |-> 10,
     nameservers |-> <<>>, ip_addresses |-> <<>>, dhcp |-> None,
     routes |-> <<>>, bond |-> i.bond, unmanaged |-> is_none(i.bond),
     required_for_online |-> IF is_none(i.bond) THEN None ELSE Some("no")]

\* the candidate bond device of a bond key
BondCandidate(bond_name, dns_servers) ==
    [name |-> Some(bond_name), mac_address |-> None, path |-> None,
     priority |-> 5, nameservers |-> dns_servers, ip_addresses |-> <<>>,
     dhcp |-> None, routes |-> <<>>, bond |-> None, unmanaged |-> FALSE,
     required_for_online |-> Some("degraded-carrier")]

\* a comparison that leaves the name out
BondKnownIgnoringName(bonds, bond) ==
    \E k \in 1..Len(bonds) : [bond EXCEPT !.name = None] = [bonds[k][2] EXCEPT !.name = None]

\* bonds.iter().any(|(_, b)| &bond == b)
BondKnown(bonds, bond) == \E k \in 1..Len(bonds) : bond = bonds[k][2]

\* the loop over netinfo.interfaces, after its first n descriptors
RECURSIVE ScanInterfaces(_, _, _)
ScanInterfaces(descs, dns_servers, n) ==
    IF n = 0 THEN [ok |-> TRUE, err |-> "", interfaces |-> <<>>, bonds |-> <<>>]
    ELSE LET prev == ScanInterfaces(descs, dns_servers, n - 1)
             i == descs[n]
             mac == MacAddr_from_str(i.mac)
         IN  IF ~prev.ok THEN prev
             ELSE IF ~mac.ok THEN [prev EXCEPT !.ok = FALSE, !.err = mac.err]
             ELSE LET bond == BondCandidate(unwrap(i.bond), dns_servers)
                  IN  [prev EXCEPT
                         !.interfaces = Append(@, PhysicalInterface(i, Val(mac))),
                         !.bonds = IF is_some(i.bond) /\ ~BondKnown(@, bond)
                                   THEN Append(@, <<Val(mac), bond>>)
                                   ELSE @]

\* a destination taken from the family of the gateway
RouteDestinationByGateway(a) ==
    IF ~a.public /\ a.gateway.fam = "V4"
    THEN [ip |-> V4(<<10, 0, 0, 0>>), prefix |-> 8]
    ELSE IF a.public /\ a.gateway.fam = "V4"
    THEN [ip |-> V4(<<0, 0, 0, 0>>), prefix |-> 0]
    ELSE [ip |-> V6(<<0, 0, 0, 0, 0, 0, 0, 0>>), prefix |-> 0]

\* the heuristic destination of the route of one address
RouteDestination(a) ==
    IF ~a.public /\ a.address.fam = "V4"
    THEN [ip |-> V4(<<10, 0, 0, 0>>), prefix |-> 8]
    ELSE IF a.public /\ a.address.fam = "V4"
    THEN [ip |-> V4(<<0, 0, 0, 0>>), prefix |-> 0]
    ELSE [ip |-> V6(<<0, 0, 0, 0, 0, 0, 0, 0>>), prefix |-> 0]

\* the loop over netinfo.addresses, after its first n addresses
RECURSIVE AttachAddresses(_, _, _)
AttachAddresses(first_bond, addresses, n) ==
    IF n = 0 THEN [ok |-> TRUE, err |-> "", bond |-> first_bond]
    ELSE LET prev == AttachAddresses(first_bond, addresses, n - 1)
             a == addresses[n]
             prefix == ip_mask_to_prefix(a.netmask)
             net == IpNetwork_new(a.address, Val(prefix))
         IN  IF ~prev.ok THEN prev
             ELSE IF ~prefix.ok THEN [prev EXCEPT !.ok = FALSE, !.err = prefix.err]
             ELSE IF ~net.ok THEN [prev EXCEPT !.ok = FALSE, !.err = net.err]
             ELSE [prev EXCEPT
                     !.bond.ip_addresses = Append(@, Val(net)),
                     !.bond.routes =
                         Append(@, NetworkRoute(RouteDestination(a), a.gateway))]

\* the attribute list shared by every bond device
BondAttrs(mode, mode_string) ==
    << <<"TransmitHashPolicy", "layer3+4">>, <<"MIIMonitorSec", ".1">>,
       <<"UpDelaySec", ".2">>, <<"DownDelaySec", ".2">>,
       <<"Mode", mode_string>> >>
    \o (IF mode = BONDING_MODE_LACP
        THEN << <<"LACPTransmitRate", "fast">> >> ELSE <<>>)

\* a bond device left without a priority
BondNetDevNoPriority(mac, bond, attrs) ==
    [name |-> unwrap(bond.name), kind |-> "Bond", mac_address |-> mac,
     priority |-> None,
     sd_netdev_sections |-> << [name |-> "Bond", attributes |-> attrs] >>]

\* the VirtualNetDev of one (mac, bond) pair
BondNetDev(mac, bond, attrs) ==
    [name |-> unwrap(bond.name), kind |-> "Bond", mac_address |-> mac,
     priority |-> Some(5),
     sd_netdev_sections |-> << [name |-> "Bond", attributes |-> attrs] >>]

\* a fallback that is left managed
FallbackManaged ==
    [name |-> None, mac_address |-> None, path |-> Some("pci-*"),
     priority |-> 80, nameservers |-> <<>>, ip_addresses |-> <<>>,
     dhcp |-> None, routes |-> <<>>, bond |-> None, unmanaged |-> FALSE,
     required_for_online |-> None]

Fallback ==
    [name |-> None, mac_address |-> None, path |-> Some("pci-*"),
     priority |-> 80, nameservers |-> <<>>, ip_addresses |-> <<>>,
     dhcp |-> None, routes |-> <<>>, bond |-> None, unmanaged |-> TRUE,
     required_for_online |-> None]

\* the addresses attached to the bond found last
LastBond(bonds) == Len(bonds)

\* bonds.get_mut(0): the bond the addresses are attached to
FirstBond(bonds) == 1

\* a no-bond return that carries the fallback too
NoBondReturnWithFallback(interfaces) == Ok(<<interfaces \o <<Fallback>>, <<>> >>)

\* the return taken when no bond was found
NoBondReturn(interfaces) == Ok(<<interfaces, <<>> >>)

parse_network(this, state) ==
    LET netinfo == this.data.network
        dns_servers == get_dns_servers(state)
        scan == ScanInterfaces(netinfo.interfaces, Val(dns_servers),
                               Len(netinfo.interfaces))
        first == FirstBond(scan.bonds)
        attached == AttachAddresses(scan.bonds[first][2], netinfo.addresses,
                                    Len(netinfo.addresses))
        bonds == [scan.bonds EXCEPT ![first][2] = attached.bond]
        mode == bonding_mode_to_string(netinfo.bonding.mode)
        attrs == BondAttrs(netinfo.bonding.mode, Val(mode))
        nameless == \E k \in 1..Len(bonds) : is_none(bonds[k][2].name)
    IN  IF ~dns_servers.ok THEN Err(dns_servers.err)
        ELSE IF ~scan.ok THEN Err(scan.err)
        ELSE IF Len(scan.bonds) = 0 THEN NoBondReturn(scan.interfaces)
        ELSE IF ~attached.ok THEN Err(attached.err)
        ELSE IF ~mode.ok THEN Err(mode.err)
        ELSE IF nameless THEN Err("invalid bond interface")
        ELSE Ok(<< scan.interfaces
                     \o [k \in 1..Len(bonds) |-> bonds[k][2]]
                     \o <<Fallback>>,
                   [k \in 1..Len(bonds) |->
                       BondNetDev(bonds[k][1], bonds[k][2], attrs)] >>)

(***************************************************************************)
(* src/providers/proxmoxve/cloudconfig.rs: ProxmoxVECloudConfig.           *)
(* A subnet type is kept as its characters, for the substring test.        *)
(***************************************************************************)
STATIC == <<"s", "t", "a", "t", "i", "c">>
STATIC6 == <<"s", "t", "a", "t", "i", "c", "6">>
DHCP == <<"d", "h", "c", "p">>
IPV6_SLAAC == <<"i", "p", "v", "6", "_", "s", "l", "a", "a", "c">>

\* str::contains
contains(hay, needle) ==
    \E k \in 1..(Len(hay) - Len(needle) + 1) :
        SubSeq(hay, k, k + Len(needle) - 1) = needle

\* a default route that is always the IPv4 one
GatewayDestinationV4(gateway) ==
    IpNetwork_from_str(TextCidr(".", <<0, 0, 0, 0>>, 0))

\* the default route of a gateway
GatewayDestination(gateway) ==
    IF is_ipv6(gateway)
    THEN IpNetwork_from_str(TextCidr(":", <<0, 0, 0, 0, 0, 0, 0, 0>>, 0))
    ELSE IpNetwork_from_str(TextCidr(".", <<0, 0, 0, 0>>, 0))

\* the address of a static subnet, with or without a netmask
SubnetNetwork(subnet) ==
    IF is_some(subnet.netmask)
    THEN LET ip == IpAddr_from_str(unwrap(subnet.address))
             netmask == IpAddr_from_str(unwrap(subnet.netmask))
         IN  IF ~ip.ok THEN ip
             ELSE IF ~netmask.ok THEN netmask
             ELSE IpNetwork_with_netmask(Val(ip), Val(netmask))
    ELSE IpNetwork_from_str(unwrap(subnet.address))

\* an "ipv6_slaac" subnet that aborts the conversion
SlaacRejected(iface, subnet) ==
    IF subnet.subnet_type = IPV6_SLAAC THEN Err("UnsupportedSubnet") ELSE Ok(iface)

\* a subnet that is not static: "ipv6_slaac" is logged, and every such subnet
\* leaves the interface as it is
SlaacIgnored(iface, subnet) == Ok(iface)

\* one pass of the loop over self.subnets
SubnetStep(iface, subnet) ==
    IF ~contains(subnet.subnet_type, STATIC) THEN SlaacIgnored(iface, subnet)
    ELSE IF is_none(subnet.address) THEN Err("MissingAddress")
    ELSE LET net == SubnetNetwork(subnet)
             gateway == IpAddr_from_str(unwrap(subnet.gateway))
             destination == GatewayDestination(Val(gateway))
             with_ip == [iface EXCEPT !.ip_addresses = Append(@, Val(net))]
         IN  IF ~net.ok THEN Err(net.err)
             ELSE IF is_none(subnet.gateway) THEN Ok(with_ip)
             ELSE IF ~gateway.ok THEN Err(gateway.err)
             ELSE IF ~destination.ok THEN Err(destination.err)
             ELSE Ok([with_ip EXCEPT !.routes =
                        Append(@, NetworkRoute(Val(destination), Val(gateway)))])

\* the loop over self.subnets, after its first n subnets
RECURSIVE ScanSubnets(_, _, _)
ScanSubnets(iface, subnets, n) ==
    IF n = 0 THEN Ok(iface)
    ELSE LET prev == ScanSubnets(iface, subnets, n - 1)
         IN  IF ~prev.ok THEN prev ELSE SubnetStep(Val(prev), subnets[n])

to_interface(entry) ==
    LET iface == [name |-> entry.name, mac_address |-> None, path |-> None,
                  priority |-> 20, nameservers |-> <<>>, ip_addresses |-> <<>>,
                  dhcp |-> None, routes |-> <<>>, bond |-> None,
                  unmanaged |-> FALSE, required_for_online |-> None]
        scanned == ScanSubnets(iface, entry.subnets, Len(entry.subnets))
        mac == MacAddr_from_str(unwrap(entry.mac_address))
    IN  IF entry.network_type # "physical" THEN Err("UnsupportedConfigType")
        ELSE IF ~scanned.ok THEN scanned
        ELSE IF is_none(entry.mac_address) THEN scanned
        ELSE IF ~mac.ok THEN Err(mac.err)
        ELSE Ok([Val(scanned) EXCEPT !.mac_address = Some(Val(mac))])

IsNameserver(c) == c.network_type = "nameserver"
IsPhysical(c) == c.network_type = "physical"

\* a collection that drops the failed elements and keeps the others
CollectSucceeded(results) ==
    LET good == {k \in 1..Len(results) : results[k].ok}
        nth(n) == CHOOSE k \in good : Cardinality({l \in good : l <= k}) = n
    IN  Ok([n \in 1..Cardinality(good) |-> Val(results[nth(n)])])

\* iter().map(f).collect::<Result<Vec<_>, _>>(): the first error, or every value
Collect(results) ==
    LET bad == {k \in 1..Len(results) : ~results[k].ok}
    IN  IF bad = {} THEN Ok([k \in 1..Len(results) |-> Val(results[k])])
        ELSE Err(results[CHOOSE k \in bad : \A l \in bad : k <= l].err)

\* a limit of two nameserver entries
TooManyNameserversOverTwo(nameservers) == Len(nameservers) > 2

\* nameservers.len() > 1
TooManyNameservers(nameservers) == Len(nameservers) > 1

\* the nameservers attached to the last interface
LastInterface(interfaces) == Len(interfaces)

\* interfaces.first_mut(): the interface the nameservers are attached to
FirstInterface(interfaces) == 1

\* nameserver addresses parsed whenever there is a nameserver entry
NameserversSkippedWithoutEntry(interfaces, nameservers) == Len(nameservers) = 0

\* interfaces.first_mut() or nameservers.first() is None: nothing is parsed
NameserversSkipped(interfaces, nameservers) ==
    Len(interfaces) = 0 \/ Len(nameservers) = 0

networks(this) ==
    LET config == this.network_config.config
        nameservers == SelectSeq(config, IsNameserver)
        physical == SelectSeq(config, IsPhysical)
        interfaces == Collect([k \in 1..Len(physical) |-> to_interface(physical[k])])
        address == nameservers[1].address
        ips == Collect([k \in 1..Len(address) |-> IpAddr_from_str(address[k])])
    IN  IF TooManyNameservers(nameservers) THEN Err("TooManyNameservers")
        ELSE IF ~interfaces.ok THEN interfaces
        ELSE IF NameserversSkipped(Val(interfaces), nameservers) THEN interfaces
        ELSE IF ~ips.ok THEN Err(ips.err)
        ELSE Ok([Val(interfaces) EXCEPT
                   ![FirstInterface(Val(interfaces))].nameservers = Val(ips)])

(***************************************************************************)
(* src/network.rs: unit names and unit texts. A text is the sequence of    *)
(* its pieces: a string of the input is one piece, a formatted number is   *)
(* one piece per digit, and "\n" is the piece that ends a line.            *)
(***************************************************************************)
Digits == <<"0", "1", "2", "3", "4", "5", "6", "7", "8", "9",
            "a", "b", "c", "d", "e", "f">>

\* {} of an unsigned integer
RECURSIVE Decimal(_)
Decimal(n) ==
    IF n < 10 THEN <<Digits[n + 1]>>
    ELSE Decimal(n \div 10) \o <<Digits[(n % 10) + 1]>>

\* {:x} of an unsigned integer
RECURSIVE LowerHex(_)
LowerHex(n) ==
    IF n < 16 THEN <<Digits[n + 1]>>
    ELSE LowerHex(n \div 16) \o <<Digits[(n % 16) + 1]>>

\* a width of two that cuts the number down to its last two digits
Pad2Truncated(digits) ==
    IF Len(digits) < 2 THEN <<"0">> \o digits
    ELSE SubSeq(digits, Len(digits) - 1, Len(digits))

\* the width of {:02}: zeros on the left up to two digits, nothing cut
Pad2(digits) == IF Len(digits) < 2 THEN <<"0">> \o digits ELSE digits

RECURSIVE Join(_, _)
Join(texts, sep) ==
    IF texts = <<>> THEN <<>>
    ELSE IF Len(texts) = 1 THEN texts[1]
    ELSE texts[1] \o sep \o Join(Tail(texts), sep)

\* Display of pnet_base::MacAddr: six groups of two lowercase hex digits
MacAddr_to_string(mac) ==
    Join([k \in 1..Len(mac.octets) |->
             <<Digits[(mac.octets[k] \div 16) + 1], Digits[(mac.octets[k] % 16) + 1]>>],
         <<":">>)

\* the number of zero segments that start at place k
ZeroRun(segs, k) ==
    LET ends == {l \in k..(Len(segs) + 1) : l = Len(segs) + 1 \/ segs[l] # 0}
    IN  (CHOOSE l \in ends : \A m \in ends : l <= m) - k

\* Display of std::net::IpAddr
IpAddr_to_string(ip) ==
    IF ip.fam = "V4"
    THEN Join([k \in 1..4 |-> Decimal(ip.segs[k])], <<".">>)
    ELSE LET segs == ip.segs
             hex(from, to) ==
                 Join([k \in 1..(to - from + 1) |-> LowerHex(segs[from + k - 1])], <<":">>)
             longest == CHOOSE k \in 1..8 :
                            /\ \A l \in 1..8 : ZeroRun(segs, l) <= ZeroRun(segs, k)
                            /\ \A l \in 1..(k - 1) : ZeroRun(segs, l) < ZeroRun(segs, k)
         IN  IF SubSeq(segs, 1, 6) = <<0, 0, 0, 0, 0, 65535>>
             THEN <<":", ":", "f", "f", "f", "f", ":">>
                  \o Join(<<Decimal(segs[7] \div 256), Decimal(segs[7] % 256),
                            Decimal(segs[8] \div 256), Decimal(segs[8] % 256)>>, <<".">>)
             ELSE IF ZeroRun(segs, longest) > 1
             THEN hex(1, longest - 1) \o <<":", ":">>
                  \o hex(longest + ZeroRun(segs, longest), 8)
             ELSE hex(1, 8)

\* Display of ipnetwork::IpNetwork
IpNetwork_to_string(net) == IpAddr_to_string(net.ip) \o <<"/">> \o Decimal(net.prefix)

\* the MAC address ahead of the name
IfaceNameMacFirst(this) ==
    IF is_some(this.mac_address) THEN Ok(MacAddr_to_string(unwrap(this.mac_address)))
    ELSE IF is_some(this.name) THEN Ok(<<unwrap(this.name)>>)
    ELSE IF is_some(this.path) THEN Ok(<<unwrap(this.path)>>)
    ELSE Err("MissingIdentifier")

\* match (&self.name, &self.mac_address, &self.path)
IfaceName(this) ==
    IF is_some(this.name) THEN Ok(<<unwrap(this.name)>>)
    ELSE IF is_some(this.mac_address) THEN Ok(MacAddr_to_string(unwrap(this.mac_address)))
    ELSE IF is_some(this.path) THEN Ok(<<unwrap(this.path)>>)
    ELSE Err("MissingIdentifier")

sd_network_unit_name(this) ==
    LET iface_name == IfaceName(this)
    IN  IF ~iface_name.ok THEN iface_name
        ELSE Ok(Pad2(Decimal(this.priority)) \o <<"-">> \o Val(iface_name)
                \o <<".network">>)

\* self.priority.unwrap_or(10)
PriorityOrDefault(priority) == IF is_some(priority) THEN unwrap(priority) ELSE 10

netdev_unit_name(this) ==
    Pad2(Decimal(PriorityOrDefault(this.priority))) \o <<"-", this.name, ".netdev">>

\* NetDevKind::sd_netdev_kind
sd_netdev_kind(netdev_kind) == IF netdev_kind = "Bond" THEN <<"bond">> ELSE <<"vlan">>

\* DhcpSetting::sd_dhcp_setting
sd_dhcp_setting(dhcp) ==
    IF dhcp = "Both" THEN <<"yes">> ELSE IF dhcp = "V4" THEN <<"ipv4">> ELSE <<"ipv6">>

\* writeln!: the text and the end of its line
Line(text) == text \o <<"\n">>

RECURSIVE Concat(_)
Concat(texts) == IF texts = <<>> THEN <<>> ELSE texts[1] \o Concat(Tail(texts))

\* a later section header written without the "\n" ahead of it
LaterHeaderNoBlank(name) == Line(<<"[", name, "]">>)

\* writeln!(config, "\n[{}]"): the header of every section but the first
LaterHeader(name) == <<"\n">> \o Line(<<"[", name, "]">>)

\* a [Link] section written only for an unmanaged interface
LinkSectionUnmanagedOnly(this) ==
    (IF this.unmanaged THEN LaterHeader("Link") ELSE <<>>)
    \o (IF this.unmanaged THEN Line(<<"Unmanaged=yes">>) ELSE <<>>)
    \o (IF is_some(this.required_for_online)
        THEN Line(<<"RequiredForOnline=", unwrap(this.required_for_online)>>)
        ELSE <<>>)

\* the [Link] section
LinkSection(this) ==
    (IF this.unmanaged \/ is_some(this.required_for_online)
     THEN LaterHeader("Link") ELSE <<>>)
    \o (IF this.unmanaged THEN Line(<<"Unmanaged=yes">>) ELSE <<>>)
    \o (IF is_some(this.required_for_online)
        THEN Line(<<"RequiredForOnline=", unwrap(this.required_for_online)>>)
        ELSE <<>>)

\* Interface::config
config(this) ==
    Line(<<"[", "Match", "]">>)
    \o (IF is_some(this.name) THEN Line(<<"Name=", unwrap(this.name)>>) ELSE <<>>)
    \o (IF is_some(this.mac_address)
        THEN Line(<<"MACAddress=">> \o MacAddr_to_string(unwrap(this.mac_address)))
        ELSE <<>>)
    \o (IF is_some(this.path) THEN Line(<<"Path=", unwrap(this.path)>>) ELSE <<>>)
    \o LaterHeader("Network")
    \o (IF is_some(this.dhcp)
        THEN Line(<<"DHCP=">> \o sd_dhcp_setting(unwrap(this.dhcp))) ELSE <<>>)
    \o Concat([k \in 1..Len(this.nameservers) |->
                  Line(<<"DNS=">> \o IpAddr_to_string(this.nameservers[k]))])
    \o (IF is_some(this.bond) THEN Line(<<"Bond=", unwrap(this.bond)>>) ELSE <<>>)
    \o LinkSection(this)
    \o Concat([k \in 1..Len(this.ip_addresses) |->
                  LaterHeader("Address")
                  \o Line(<<"Address=">> \o IpNetwork_to_string(this.ip_addresses[k]))])
    \o Concat([k \in 1..Len(this.routes) |->
                  LaterHeader("Route")
                  \o Line(<<"Destination=">>
                          \o IpNetwork_to_string(this.routes[k].destination))
                  \o Line(<<"Gateway=">> \o IpAddr_to_string(this.routes[k].gateway))])

\* a custom section that is left out when it has no attribute
SectionBlockUnlessEmpty(section) ==
    IF section.attributes = <<>> THEN <<>>
    ELSE LaterHeader(section.name)
         \o Concat([k \in 1..Len(section.attributes) |->
                       Line(<<section.attributes[k][1], "=", section.attributes[k][2]>>)])

\* one pass of the loop over self.sd_netdev_sections
SectionBlock(section) ==
    LaterHeader(section.name)
    \o Concat([k \in 1..Len(section.attributes) |->
                  Line(<<section.attributes[k][1], "=", section.attributes[k][2]>>)])

\* VirtualNetDev::sd_netdev_config
sd_netdev_config(this) ==
    Line(<<"[", "NetDev", "]">>)
    \o Line(<<"Name=", this.name>>)
    \o Line(<<"Kind=">> \o sd_netdev_kind(this.kind))
    \o Line(<<"MACAddress=">> \o MacAddr_to_string(this.mac_address))
    \o Concat([k \in 1..Len(this.sd_netdev_sections) |->
                  SectionBlock(this.sd_netdev_sections[k])])

(***************************************************************************)
(* src/providers/packet/mod.rs: the attributes of PacketProvider.          *)
(***************************************************************************)
\* one counter per address family, shared by public and private addresses
CounterOfFamily(a) == IF a.address.fam = "V4" THEN "v4_public" ELSE "v6_public"

\* match (a.address, a.public): the counter of the arm
CounterOf(a) ==
    IF a.address.fam = "V4"
    THEN (IF a.public THEN "v4_public" ELSE "v4_private")
    ELSE (IF a.public THEN "v6_public" ELSE "v6_private")

\* match (a.address, a.public): the start of the keys of the arm
KeyOf(a) ==
    IF a.address.fam = "V4"
    THEN (IF a.public THEN "PACKET_IPV4_PUBLIC_" ELSE "PACKET_IPV4_PRIVATE_")
    ELSE (IF a.public THEN "PACKET_IPV6_PUBLIC_" ELSE "PACKET_IPV6_PRIVATE_")

\* one pass of the loop over self.data.network.addresses
AddressAttrs(st, a) ==
    LET counter == st.counters[CounterOf(a)]
    IN  [attrs |-> st.attrs
                   \o << <<<<KeyOf(a)>> \o Decimal(counter), IpAddr_to_string(a.address)>>,
                         <<<<KeyOf(a), "GATEWAY_">> \o Decimal(counter),
                           IpAddr_to_string(a.gateway)>> >>,
         counters |-> [st.counters EXCEPT ![CounterOf(a)] = @ + 1]]

\* the loop over self.data.network.addresses, after its first n addresses
RECURSIVE ScanAddresses(_, _)
ScanAddresses(addresses, n) ==
    IF n = 0
    THEN [attrs |-> <<>>,
          counters |-> [c \in {"v4_public", "v4_private", "v6_public", "v6_private"} |-> 0]]
    ELSE AddressAttrs(ScanAddresses(addresses, n - 1), addresses[n])

get_attrs(this) ==
    ScanAddresses(this.data.network.addresses, Len(this.data.network.addresses)).attrs
    \o << <<<<"PACKET_HOSTNAME">>, <<this.data.hostname>>>>,
          <<<<"PACKET_PHONE_HOME_URL">>, <<this.data.phone_home_url>>>>,
          <<<<"PACKET_PLAN">>, <<this.data.plan>>>> >>

\* collect::<HashMap<String, String>>(): the last value pushed for each key
CollectMap(pairs) ==
    [key \in {pairs[k][1] : k \in 1..Len(pairs)} |->
        LET places == {k \in 1..Len(pairs) : pairs[k][1] = key}
        IN  pairs[CHOOSE k \in places : \A l \in places : l <= k][2]]

attributes(this) == CollectMap(get_attrs(this))

(***************************************************************************)
(* Inputs.                                                                 *)
(***************************************************************************)
\* physical descriptors of the Packet metadata: MAC text and bond key
Descriptors ==
    { [mac |-> <<0, 0, 0, 0, 0, 1>>, bond |-> None],
      [mac |-> <<0, 0, 0, 0, 0, 2>>, bond |-> None],
      [mac |-> <<0, 0, 0, 0, 0, 1>>, bond |-> Some("bond0")],
      [mac |-> <<0, 0, 0, 0, 0, 2>>, bond |-> Some("bond0")],
      [mac |-> <<0, 0, 0, 0, 0, 1>>, bond |-> Some("bond1")],
      [mac |-> <<0, 0, 0, 0, 1>>, bond |-> Some("bond0")] }

Mask31 == V4(<<255, 255, 255, 254>>)
MaskHoled == V4(<<255, 0, 255, 0>>)
Mask127 == V6(<<65535, 65535, 65535, 65535, 65535, 65535, 65535, 65534>>)
Pub4 == V4(<<147, 75, 0, 3>>)
Priv4 == V4(<<10, 80, 0, 3>>)
Glob6 == V6(<<9732, 4992, 0, 0, 0, 0, 0, 3>>)
Gw4 == V4(<<147, 75, 0, 2>>)
Gw6 == V6(<<9732, 4992, 0, 0, 0, 0, 0, 2>>)

\* addresses of the Packet metadata
Addresses ==
    { [public |-> TRUE, address |-> Pub4, netmask |-> Mask31, gateway |-> Gw4],
      [public |-> FALSE, address |-> Priv4, netmask |-> Mask31, gateway |-> Gw6],
      [public |-> TRUE, address |-> Glob6, netmask |-> Mask127, gateway |-> Gw6],
      [public |-> FALSE, address |-> Glob6, netmask |-> Mask127, gateway |-> Gw4],
      [public |-> TRUE, address |-> Pub4, netmask |-> MaskHoled, gateway |-> Gw4] }

Dns4 == Text(".", <<147, 75, 207, 207>>)
Dns6 == Text(":", <<9732, 4992, 0, 0, 0, 0, 0, 53>>)
BadIp == Text(".", <<147, 75, 207>>)

\* the DNS entry of the state file: absent, or its space-separated pieces
NetifStates == {None, Some(<<Dns4, Dns6>>), Some(<<BadIp>>)}

\* bonding modes tried with every list: active-backup, 802.3ad, an unknown one
SampleModes == {1, BONDING_MODE_LACP, 7}

PacketProviders(max_ifaces, max_addrs, modes) ==
    { [data |-> [hostname |-> "host", phone_home_url |-> "url", plan |-> "plan",
                 network |-> [interfaces |-> is, addresses |-> as,
                              bonding |-> [mode |-> m]]]] :
        is \in SeqUpTo(Descriptors, max_ifaces),
        as \in SeqUpTo(Addresses, max_addrs),
        m \in modes }

\* subnets of a Proxmox VE entry
SubnetAddresses ==
    {None, Some(Text(".", <<192, 0, 2, 10>>)),
     Some(TextCidr(":", <<8193, 3512, 0, 0, 0, 0, 0, 16>>, 64)), Some(BadIp)}
SubnetGateways ==
    {None, Some(Text(".", <<192, 0, 2, 1>>)),
     Some(Text(":", <<8193, 3512, 0, 0, 0, 0, 0, 1>>)), Some(BadIp)}
Subnets ==
    [subnet_type : {STATIC}, address : SubnetAddresses,
     netmask : {None, Some(Text(".", <<255, 255, 255, 0>>))},
     gateway : SubnetGateways]
    \cup [subnet_type : {STATIC6},
          address : {Some(TextCidr(":", <<8193, 3512, 0, 0, 0, 0, 0, 16>>, 64))},
          netmask : {None},
          gateway : {Some(Text(":", <<8193, 3512, 0, 0, 0, 0, 0, 1>>))}]
    \cup [subnet_type : {IPV6_SLAAC}, address : {None, Some(BadIp)},
          netmask : {None}, gateway : {None, Some(BadIp)}]
    \cup [subnet_type : {DHCP}, address : {None}, netmask : {None},
          gateway : {None}]

\* config entries converted on their own
Entries(max_subnets) ==
    [network_type : {"physical"}, name : {Some("eth0")},
     mac_address : {None, Some(<<0, 0, 0, 0, 0, 1>>), Some(<<0, 0, 0, 0, 1>>)},
     address : {<<>>}, subnets : SeqUpTo(Subnets, max_subnets)]
    \cup [network_type : {"nameserver"}, name : {None}, mac_address : {None},
          address : {<<Dns4>>}, subnets : {<<>>}]

StaticGw4 ==
    [subnet_type |-> STATIC, address |-> Some(Text(".", <<192, 0, 2, 10>>)),
     netmask |-> Some(Text(".", <<255, 255, 255, 0>>)),
     gateway |-> Some(Text(".", <<192, 0, 2, 1>>))]
Static6NoGw ==
    [subnet_type |-> STATIC6,
     address |-> Some(TextCidr(":", <<8193, 3512, 0, 0, 0, 0, 0, 16>>, 64)),
     netmask |-> None, gateway |-> None]
StaticBadGw == [StaticGw4 EXCEPT !.gateway = Some(BadIp)]
SlaacBadGw ==
    [subnet_type |-> IPV6_SLAAC, address |-> None, netmask |-> None,
     gateway |-> Some(BadIp)]

\* entries of a whole network-config
ConfigEntries ==
    { [network_type |-> "physical", name |-> Some("eth0"),
       mac_address |-> Some(<<0, 0, 0, 0, 0, 1>>), address |-> <<>>,
       subnets |-> <<StaticGw4>>],
      [network_type |-> "physical", name |-> Some("eth1"),
       mac_address |-> None, address |-> <<>>,
       subnets |-> <<Static6NoGw, StaticGw4>>],
      [network_type |-> "physical", name |-> None,
       mac_address |-> Some(<<0, 0, 0, 0, 0, 2>>), address |-> <<>>,
       subnets |-> <<StaticGw4, StaticBadGw>>],
      [network_type |-> "physical", name |-> Some("eth3"),
       mac_address |-> Some(<<0, 0, 0, 0, 1>>), address |-> <<>>,
       subnets |-> <<>>],
      [network_type |-> "nameserver", name |-> None, mac_address |-> None,
       address |-> <<Dns4, Dns6>>, subnets |-> <<>>],
      [network_type |-> "nameserver", name |-> None, mac_address |-> None,
       address |-> <<BadIp>>, subnets |-> <<>>],
      [network_type |-> "physical", name |-> Some("eth4"),
       mac_address |-> None, address |-> <<>>,
       subnets |-> <<SlaacBadGw, StaticGw4>>],
      [network_type |-> "bridge", name |-> Some("br0"), mac_address |-> None,
       address |-> <<>>, subnets |-> <<StaticBadGw>>] }

CloudConfigs(max_entries) ==
    { [network_config |-> [config |-> c]] : c \in SeqUpTo(ConfigEntries, max_entries) }

\* the Interface values whose unit name is asked for
Mac0 == [octets |-> <<0, 0, 0, 0, 0, 0>>]
MacF4 == [octets |-> <<244, 0, 52, 9, 115, 238>>]
NamedInterfaces ==
    [name : {None, Some("lo")}, mac_address : {None, Some(Mac0), Some(MacF4)},
     path : {None, Some("pci-*")}, priority : 0..U8_MAX,
     nameservers : {<<>>}, ip_addresses : {<<>>}, dhcp : {None}, routes : {<<>>},
     bond : {None}, unmanaged : {FALSE}, required_for_online : {None}]

\* the VirtualNetDev values whose unit name is asked for
NamedNetDevs(max_priority) ==
    [name : {"vlan0", "bond0"}, kind : {"Bond", "Vlan"}, mac_address : {Mac0},
     priority : {None} \cup {Some(p) : p \in 0..max_priority},
     sd_netdev_sections : {<<>>}]

\* the Interface values whose unit text is asked for: a list is the start of
\* a sequence of alternating elements
Prefixes(s, n) == {SubSeq(s, 1, k) : k \in 0..n}
Ns4 == V4(<<192, 0, 2, 53>>)
Ns6 == V6(<<0, 0, 0, 0, 0, 0, 0, 1>>)
Net4 == [ip |-> V4(<<127, 0, 0, 1>>), prefix |-> 8]
Net6 == [ip |-> V6(<<8193, 3512, 0, 0, 1, 0, 0, 16>>), prefix |-> 64]
Route4 == NetworkRoute([ip |-> V4(<<0, 0, 0, 0>>), prefix |-> 0], V4(<<192, 0, 2, 1>>))
Route6 == NetworkRoute([ip |-> V6(<<0, 0, 0, 0, 0, 0, 0, 0>>), prefix |-> 0],
                       V6(<<0, 0, 0, 0, 0, 65535, 49152, 513>>))
RenderedInterfaces(max_items) ==
    [name : {None, Some("lo")}, mac_address : {None, Some(MacF4)},
     path : {None, Some("pci-*")}, priority : {20},
     nameservers : Prefixes(<<Ns6, Ns4, Ns6, Ns4>>, max_items),
     ip_addresses : Prefixes(<<Net4, Net6, Net4, Net6>>, max_items)
                    \cup Prefixes(<<Net6, Net4, Net6, Net4>>, max_items),
     dhcp : {None, Some("Both"), Some("V4"), Some("V6")},
     routes : Prefixes(<<Route6, Route4, Route6, Route4>>, max_items),
     bond : {None, Some("bond0")}, unmanaged : BOOLEAN,
     required_for_online : {None, Some("no")}]

\* the VirtualNetDev values whose unit text is asked for
SdSections ==
    { [name |-> "Test", attributes |-> << <<"foo", "bar">>, <<"oingo", "boingo">> >>],
      [name |-> "Empty", attributes |-> <<>>],
      [name |-> "Test", attributes |-> << <<"foo", "bar">>, <<"foo", "baz">> >>] }
RenderedNetDevs(max_sections) ==
    [name : {"vlan0"}, kind : {"Bond", "Vlan"}, mac_address : {Mac0, MacF4},
     priority : {None, Some(20)},
     sd_netdev_sections : SeqUpTo(SdSections, max_sections)]

\* the Packet metadata whose attributes are asked for
AttrAddresses ==
    { [public |-> TRUE, address |-> Pub4, netmask |-> Mask31, gateway |-> Gw4],
      [public |-> TRUE, address |-> V4(<<147, 75, 0, 5>>), netmask |-> Mask31,
       gateway |-> V4(<<147, 75, 0, 4>>)],
      [public |-> FALSE, address |-> Priv4, netmask |-> Mask31,
       gateway |-> V4(<<10, 80, 0, 2>>)],
      [public |-> TRUE, address |-> Glob6, netmask |-> Mask127, gateway |-> Gw6],
      [public |-> FALSE, address |-> V6(<<64768, 0, 0, 0, 0, 0, 0, 3>>),
       netmask |-> Mask127, gateway |-> V6(<<64768, 0, 0, 0, 0, 0, 0, 2>>)] }
AttrProviders(max_addrs) ==
    { [data |-> [hostname |-> "host", phone_home_url |-> "url", plan |-> "plan",
                 network |-> [interfaces |-> <<>>, addresses |-> as,
                              bonding |-> [mode |-> BONDING_MODE_LACP]]]] :
        as \in SeqUpTo(AttrAddresses, max_addrs) }

(***************************************************************************)
(* The state machine: an object is built from its metadata and its         *)
(* operation is called on it once.                                         *)
(***************************************************************************)
NotCalled == [op |-> "none", res |-> Err("")]

InitPacket ==
    /\ kind = "PacketProvider"
    /\ self \in PacketProviders(MaxIfaces, MaxAddrs, SampleModes)
    /\ netif_state = None
    /\ out = NotCalled

InitBonding ==
    /\ kind = "PacketProvider"
    /\ self \in PacketProviders(MaxIfaces, MaxModeAddrs, 0..MaxMode)
    /\ netif_state = None
    /\ out = NotCalled

InitCloudConfig ==
    /\ kind = "ProxmoxVECloudConfig"
    /\ self \in CloudConfigs(MaxEntries)
    /\ netif_state = None
    /\ out = NotCalled

InitEntry ==
    /\ kind = "ProxmoxVECloudNetworkConfigEntry"
    /\ self \in Entries(MaxSubnets)
    /\ netif_state = None
    /\ out = NotCalled

\* an Interface or a VirtualNetDev whose unit name is asked for
InitUnitName ==
    /\ \/ kind = "Interface" /\ self \in NamedInterfaces
       \/ kind = "VirtualNetDev" /\ self \in NamedNetDevs(MaxDevPriority)
    /\ netif_state = None
    /\ out = NotCalled

\* an Interface or a VirtualNetDev whose unit text is asked for
InitUnitText ==
    /\ \/ kind = "Interface" /\ self \in RenderedInterfaces(MaxItems)
       \/ kind = "VirtualNetDev" /\ self \in RenderedNetDevs(MaxSections)
    /\ netif_state = None
    /\ out = NotCalled

\* a PacketProvider whose attributes are asked for
InitAttrs ==
    /\ kind = "PacketProvider"
    /\ self \in AttrProviders(MaxAttrAddrs)
    /\ netif_state = None
    /\ out = NotCalled

Init ==
    \/ InitPacket \/ InitBonding \/ InitCloudConfig \/ InitEntry
    \/ InitUnitName \/ InitUnitText \/ InitAttrs

\* PacketProvider::parse_network(&self), which reads the state file
ParseNetwork ==
    /\ kind = "PacketProvider"
    /\ out = NotCalled
    /\ \E state \in NetifStates :
          /\ netif_state' = state
          /\ out' = [op |-> "parse_network", res |-> parse_network(self, state)]
    /\ UNCHANGED <<kind, self>>

\* ProxmoxVECloudConfig::networks(&self)
Networks ==
    /\ kind = "ProxmoxVECloudConfig"
    /\ out = NotCalled
    /\ out' = [op |-> "networks", res |-> networks(self)]
    /\ UNCHANGED <<kind, self, netif_state>>

\* ProxmoxVECloudNetworkConfigEntry::to_interface(&self)
ToInterface ==
    /\ kind = "ProxmoxVECloudNetworkConfigEntry"
    /\ out = NotCalled
    /\ out' = [op |-> "to_interface", res |-> to_interface(self)]
    /\ UNCHANGED <<kind, self, netif_state>>

\* Interface::sd_network_unit_name(&self)
SdNetworkUnitName ==
    /\ kind = "Interface"
    /\ out = NotCalled
    /\ out' = [op |-> "sd_network_unit_name", res |-> sd_network_unit_name(self)]
    /\ UNCHANGED <<kind, self, netif_state>>

\* VirtualNetDev::netdev_unit_name(&self)
NetdevUnitName ==
    /\ kind = "VirtualNetDev"
    /\ out = NotCalled
    /\ out' = [op |-> "netdev_unit_name", res |-> Ok(netdev_unit_name(self))]
    /\ UNCHANGED <<kind, self, netif_state>>

\* Interface::config(&self)
InterfaceConfig ==
    /\ kind = "Interface"
    /\ out = NotCalled
    /\ out' = [op |-> "config", res |-> Ok(config(self))]
    /\ UNCHANGED <<kind, self, netif_state>>

\* VirtualNetDev::sd_netdev_config(&self)
SdNetdevConfig ==
    /\ kind = "VirtualNetDev"
    /\ out = NotCalled
    /\ out' = [op |-> "sd_netdev_config", res |-> Ok(sd_netdev_config(self))]
    /\ UNCHANGED <<kind, self, netif_state>>

\* PacketProvider::get_attrs(&self)
GetAttrs ==
    /\ kind = "PacketProvider"
    /\ out = NotCalled
    /\ out' = [op |-> "get_attrs", res |-> Ok(get_attrs(self))]
    /\ UNCHANGED <<kind, self, netif_state>>

\* PacketProvider::attributes(&self)
Attributes ==
    /\ kind = "PacketProvider"
    /\ out = NotCalled
    /\ out' = [op |-> "attributes", res |-> Ok(attributes(self))]
    /\ UNCHANGED <<kind, self, netif_state>>

Next ==
    \/ ParseNetwork \/ Networks \/ ToInterface
    \/ GetAttrs \/ Attributes
    \/ SdNetworkUnitName \/ NetdevUnitName
    \/ InterfaceConfig \/ SdNetdevConfig

Spec == Init /\ [][Next]_vars

\* one specification per kind of object
SpecPacket == InitPacket /\ [][ParseNetwork]_vars
SpecBonding == InitBonding /\ [][ParseNetwork]_vars
SpecCloudConfig == InitCloudConfig /\ [][Networks]_vars
SpecEntry == InitEntry /\ [][ToInterface]_vars
SpecAttrs == InitAttrs /\ [][GetAttrs \/ Attributes]_vars
SpecUnitName == InitUnitName /\ [][SdNetworkUnitName \/ NetdevUnitName]_vars
SpecUnitText == InitUnitText /\ [][InterfaceConfig \/ SdNetdevConfig]_vars

(***************************************************************************)
(* Properties of PacketProvider::parse_network.                            *)
(***************************************************************************)
PacketDone == kind = "PacketProvider" /\ out.op = "parse_network"
PacketOk == PacketDone /\ out.res.ok
Ifaces == Val(out.res)[1]
Devs == Val(out.res)[2]
Descs == self.data.network.interfaces
Addrs == self.data.network.addresses
Tagged == {k \in 1..Len(Descs) : Descs[k].bond # None}
Tags == {Descs[k].bond[1] : k \in Tagged}
FirstTag == Descs[CHOOSE k \in Tagged : \A l \in Tagged : k <= l].bond

IsFallback(i) == i.path = Some("pci-*") /\ i.priority = 80 /\ i.unmanaged
FallbackPlaces == {k \in 1..Len(Ifaces) : IsFallback(Ifaces[k])}
BondPlaces == {k \in 1..Len(Ifaces) : Ifaces[k].priority = 5}

\* C1 as stated: every successful parse_network returns a list that ends
\* with the unmanaged fallback {path "pci-*", priority 80}, which occurs
\* exactly once, whatever the number of bond tags.
C1_FallbackOnEveryInput ==
    PacketOk => FallbackPlaces = {Len(Ifaces)} /\ Len(Ifaces) >= 1

\* C1 amended: a successful parse_network on metadata with at least one bond
\* tag returns a list that ends with the unmanaged fallback, which occurs
\* exactly once; on metadata without any bond tag the list holds no fallback.
C1_FallbackWhenBonded ==
    PacketOk =>
        IF Tagged # {}
        THEN Len(Ifaces) >= 1 /\ FallbackPlaces = {Len(Ifaces)}
        ELSE FallbackPlaces = {}

C1_Witness ==
    PacketOk /\ Cardinality(Tags) = 2 /\ IsFallback(Ifaces[Len(Ifaces)])

\* C2 as stated: descriptors whose bond tags differ in name only collapse
\* into a single synthesized bond.
C2_DifferentNamesCollapse ==
    PacketOk /\ Tagged # {} => Cardinality(BondPlaces) = 1

\* C2 amended: the candidate bond is compared by full structural equality,
\* name included, before addresses and routes are filled in: descriptors with
\* the same bond tag share one synthesized bond, also when that bond later
\* receives addresses, and descriptors with different tags get distinct bonds,
\* so there is exactly one synthesized bond per distinct tag.
C2_OneBondPerTag ==
    PacketOk =>
        /\ Cardinality(BondPlaces) = Cardinality(Tags)
        /\ \A t \in Tags :
              Cardinality({k \in BondPlaces : Ifaces[k].name = Some(t)}) = 1

C2_Witness ==
    /\ PacketOk
    /\ Len(Descs) = 2 /\ Descs[1].bond = Some("bond0") /\ Descs[2].bond = Some("bond1")
    /\ Len(Addrs) > 0
    /\ Cardinality(BondPlaces) = 2

\* C3: when a bond is synthesized, every metadata address is attached, in
\* list order, to the bond of the first bond-tagged descriptor; every other
\* returned Interface has no ip_addresses and no routes.
C3_AddressesOnFirstBond ==
    PacketOk /\ Tagged # {} =>
        /\ \E k \in 1..Len(Ifaces) : Ifaces[k].name = FirstTag
        /\ \A k \in 1..Len(Ifaces) :
              IF Ifaces[k].name = FirstTag
              THEN /\ Len(Ifaces[k].ip_addresses) = Len(Addrs)
                   /\ \A n \in 1..Len(Addrs) :
                         Ifaces[k].ip_addresses[n].ip = Addrs[n].address
              ELSE Ifaces[k].ip_addresses = <<>> /\ Ifaces[k].routes = <<>>

C3_Witness ==
    /\ PacketOk /\ Cardinality(Tags) = 2 /\ Len(Addrs) = 2
    /\ Addrs[1] # Addrs[2]
    /\ \E k \in 1..Len(Ifaces) :
          Ifaces[k].name = FirstTag /\ Len(Ifaces[k].ip_addresses) = 2

\* C4: the first bond carries one route per metadata address, in address
\* order; route i has the gateway of address i and the destination 10.0.0.0/8
\* for a private IPv4 address, 0.0.0.0/0 for a public IPv4 address and ::/0
\* for any IPv6 address, whatever the family of the gateway.
C4_Destination(a) ==
    CASE a.address.fam = "V4" /\ ~a.public -> [ip |-> V4(<<10, 0, 0, 0>>), prefix |-> 8]
      [] a.address.fam = "V4" /\ a.public -> [ip |-> V4(<<0, 0, 0, 0>>), prefix |-> 0]
      [] a.address.fam = "V6" -> [ip |-> V6(<<0, 0, 0, 0, 0, 0, 0, 0>>), prefix |-> 0]

C4_RoutePerAddress ==
    PacketOk /\ Tagged # {} =>
        \A k \in 1..Len(Ifaces) :
            Ifaces[k].name = FirstTag =>
                /\ Len(Ifaces[k].routes) = Len(Addrs)
                /\ \A n \in 1..Len(Addrs) :
                      /\ Ifaces[k].routes[n].gateway = Addrs[n].gateway
                      /\ Ifaces[k].routes[n].destination = C4_Destination(Addrs[n])

C4_Witness ==
    /\ PacketOk /\ Tagged # {} /\ Len(Addrs) = 2
    /\ Addrs[1].address.fam = "V4" /\ Addrs[1].gateway.fam = "V6"
    /\ Addrs[2].address.fam = "V6" /\ Addrs[2].gateway.fam = "V4"
    /\ \E k \in 1..Len(Ifaces) : Len(Ifaces[k].routes) = 2

\* C5: without any bond tag, with MACs that parse and a DNS list that
\* resolves, parse_network succeeds with exactly the physical interfaces in
\* declaration order and no VirtualNetDev; the addresses and the bonding mode
\* have no influence on the result.
C5_Physical(d) ==
    [name |-> None, mac_address |-> Some([octets |-> d.mac]), path |-> None,
     priority |-> 10, nameservers |-> <<>>, ip_addresses |-> <<>>,
     dhcp |-> None, routes |-> <<>>, bond |-> None, unmanaged |-> TRUE,
     required_for_online |-> None]

C5_MacsParse == \A k \in 1..Len(Descs) : MacAddr_from_str(Descs[k].mac).ok

C5_NoBondIsSuccess ==
    PacketDone /\ Tagged = {} /\ C5_MacsParse /\ get_dns_servers(netif_state).ok =>
        /\ out.res.ok
        /\ Ifaces = [k \in 1..Len(Descs) |-> C5_Physical(Descs[k])]
        /\ Devs = <<>>

C5_Witness ==
    /\ PacketOk /\ Tagged = {} /\ Len(Descs) = 2 /\ Descs[1] # Descs[2]
    /\ Len(Addrs) > 0 /\ ~ip_mask_to_prefix(Addrs[1].netmask).ok
    /\ self.data.network.bonding.mode > 6
    /\ Len(Ifaces) = 2

\* C6: physical descriptor k yields Interface k with mac_address set, name and
\* path unset, priority 10, bond equal to the bond tag, unmanaged exactly when
\* there is no bond tag, and required_for_online None when unmanaged and
\* Some("no") otherwise.
C6_PhysicalInterfaces ==
    PacketOk =>
        /\ Len(Ifaces) >= Len(Descs)
        /\ \A k \in 1..Len(Descs) :
              /\ Ifaces[k].mac_address # None
              /\ Ifaces[k].mac_address[1].octets = Descs[k].mac
              /\ Ifaces[k].name = None /\ Ifaces[k].path = None
              /\ Ifaces[k].priority = 10
              /\ Ifaces[k].bond = Descs[k].bond
              /\ Ifaces[k].unmanaged = (Descs[k].bond = None)
              /\ Ifaces[k].required_for_online =
                    (IF Ifaces[k].unmanaged THEN None ELSE Some("no"))
              /\ ~(Ifaces[k].unmanaged /\ Ifaces[k].required_for_online # None)

C6_Witness ==
    /\ PacketOk /\ Len(Descs) = 2
    /\ Descs[1].bond = None /\ Descs[2].bond # None
    /\ Ifaces[1].unmanaged /\ ~Ifaces[2].unmanaged

\* C7: every bond VirtualNetDev carries the single section "Bond" with
\* TransmitHashPolicy, MIIMonitorSec, UpDelaySec, DownDelaySec, Mode in that
\* order, followed by LACPTransmitRate=fast exactly when the mode is 4; the
\* mode string comes from the fixed table of modes 0..6, and parse_network
\* fails when a bond exists and the mode is outside 0..6.
C7_ModeNames ==
    [m \in 0..6 |->
        CASE m = 0 -> "balance-rr" [] m = 1 -> "active-backup"
          [] m = 2 -> "balance-xor" [] m = 3 -> "broadcast"
          [] m = 4 -> "802.3ad" [] m = 5 -> "balance-tlb"
          [] m = 6 -> "balance-alb"]

C7_Attributes(m) ==
    << <<"TransmitHashPolicy", "layer3+4">>, <<"MIIMonitorSec", ".1">>,
       <<"UpDelaySec", ".2">>, <<"DownDelaySec", ".2">>,
       <<"Mode", C7_ModeNames[m]>> >>
    \o (IF m = 4 THEN << <<"LACPTransmitRate", "fast">> >> ELSE <<>>)

C7_BondSection ==
    LET m == self.data.network.bonding.mode
    IN  /\ PacketOk /\ Tagged # {} =>
              /\ m \in 0..6
              /\ Len(Devs) > 0
              /\ \A k \in 1..Len(Devs) :
                    Devs[k].sd_netdev_sections =
                        << [name |-> "Bond", attributes |-> C7_Attributes(m)] >>
        /\ PacketDone /\ Tagged # {} /\ m \notin 0..6 => ~out.res.ok

C7_Witness ==
    /\ PacketOk /\ Len(Devs) = 2
    /\ self.data.network.bonding.mode = 4
    /\ Len(Devs[2].sd_netdev_sections[1].attributes) = 6

(***************************************************************************)
(* Properties of the Proxmox VE provider.                                  *)
(***************************************************************************)
ConfigDone == kind = "ProxmoxVECloudConfig" /\ out.op = "networks"
ConfigOk == ConfigDone /\ out.res.ok
Config == self.network_config.config
NameserverPlaces == {k \in 1..Len(Config) : Config[k].network_type = "nameserver"}
PhysicalPlaces == {k \in 1..Len(Config) : Config[k].network_type = "physical"}

\* C8: networks() fails with the too-many-nameservers error whenever the
\* config holds more than one "nameserver" entry, whatever the other entries,
\* and never fails with it when there is at most one.
C8_TooManyNameservers ==
    ConfigDone =>
        (Cardinality(NameserverPlaces) > 1
            <=> ~out.res.ok /\ out.res.err = "TooManyNameservers")

C8_Witness ==
    /\ ConfigDone /\ Len(Config) = 3
    /\ Cardinality(NameserverPlaces) = 2
    /\ Config[1].network_type = "physical" /\ ~to_interface(Config[1]).ok
    /\ out.res.err = "TooManyNameservers"

EntryDone == kind = "ProxmoxVECloudNetworkConfigEntry" /\ out.op = "to_interface"
EntryOk == EntryDone /\ out.res.ok
IsStatic(sn) ==
    \E k \in 1..Len(sn.subnet_type) :
        /\ k + 5 <= Len(sn.subnet_type)
        /\ sn.subnet_type[k] = "s" /\ sn.subnet_type[k + 1] = "t"
        /\ sn.subnet_type[k + 2] = "a" /\ sn.subnet_type[k + 3] = "t"
        /\ sn.subnet_type[k + 4] = "i" /\ sn.subnet_type[k + 5] = "c"
StaticPlaces == {k \in 1..Len(self.subnets) : IsStatic(self.subnets[k])}
GatewayPlaces == {k \in StaticPlaces : self.subnets[k].gateway # None}
\* the number of gateway-carrying static subnets up to subnet k
RouteOf(k) == Cardinality({l \in GatewayPlaces : l <= k})

\* the subnets before subnet k convert without error
C9_Reached(k) ==
    to_interface([self EXCEPT !.subnets = SubSeq(@, 1, k - 1),
                              !.mac_address = None]).ok

\* C9: a subnet whose type contains "static" needs an address: without one the
\* conversion fails, and it fails with the missing-address error when the
\* subnets before it convert; on success each such subnet gives one
\* ip_addresses entry, and one route exactly when it has a gateway, to ::/0
\* for an IPv6 gateway and to 0.0.0.0/0 for an IPv4 gateway, whatever the
\* family of the subnet address.
C9_StaticSubnets ==
    /\ EntryDone /\ self.network_type = "physical" =>
          \A k \in StaticPlaces :
              self.subnets[k].address = None =>
                  /\ ~out.res.ok
                  /\ C9_Reached(k) => out.res.err = "MissingAddress"
    /\ EntryOk =>
          /\ Len(Val(out.res).ip_addresses) = Cardinality(StaticPlaces)
          /\ Len(Val(out.res).routes) = Cardinality(GatewayPlaces)
          /\ \A k \in GatewayPlaces :
                LET route == Val(out.res).routes[RouteOf(k)]
                IN  /\ route.gateway.segs = self.subnets[k].gateway[1].parts
                    /\ route.destination.prefix = 0
                    /\ \A n \in 1..Len(route.destination.ip.segs) :
                          route.destination.ip.segs[n] = 0
                    /\ route.destination.ip.fam = route.gateway.fam
                    /\ route.gateway.fam =
                          (IF self.subnets[k].gateway[1].sep = ":" THEN "V6" ELSE "V4")

C9_Witness ==
    /\ EntryOk /\ Len(self.subnets) = 2
    /\ StaticPlaces = {1, 2} /\ GatewayPlaces = {2}
    /\ self.subnets[2].address[1].sep = ":" /\ self.subnets[2].gateway[1].sep = "."
    /\ Len(Val(out.res).routes) = 1 /\ Len(Val(out.res).ip_addresses) = 2

\* C10: networks() returns one Interface per "physical" entry in input order,
\* each with priority 20, no bond and no path; the addresses of a nameserver
\* entry become the nameservers of the first returned Interface only, and
\* every other returned Interface has no nameservers.
C10_PhysicalOf(n) ==
    CHOOSE k \in PhysicalPlaces : Cardinality({l \in PhysicalPlaces : l <= k}) = n

C10_InterfacePerPhysical ==
    ConfigOk =>
        LET ifs == Val(out.res)
        IN  /\ Len(ifs) = Cardinality(PhysicalPlaces)
            /\ \A n \in 1..Len(ifs) :
                  /\ ifs[n].name = Config[C10_PhysicalOf(n)].name
                  /\ ifs[n].priority = 20
                  /\ ifs[n].bond = None /\ ifs[n].path = None
                  /\ n > 1 => ifs[n].nameservers = <<>>
            /\ Len(ifs) > 0 =>
                  IF NameserverPlaces = {} THEN ifs[1].nameservers = <<>>
                  ELSE LET ns == Config[CHOOSE k \in NameserverPlaces : TRUE].address
                       IN  /\ Len(ifs[1].nameservers) = Len(ns)
                           /\ \A n \in 1..Len(ns) :
                                 ifs[1].nameservers[n].segs = ns[n].parts

C10_Witness ==
    /\ ConfigOk /\ Len(Config) = 3 /\ Len(Val(out.res)) = 2
    /\ Config[1].network_type = "nameserver"
    /\ Config[2].name # Config[3].name
    /\ Len(Val(out.res)[1].nameservers) = 2
    /\ Val(out.res)[2].nameservers = <<>>

SlaacPlaces == {k \in 1..Len(self.subnets) : self.subnets[k].subnet_type = IPV6_SLAAC}
\* the entry without its "ipv6_slaac" subnets
C11_IsNotSlaac(sn) == sn.subnet_type # IPV6_SLAAC
C11_WithoutSlaac == [self EXCEPT !.subnets = SelectSeq(@, C11_IsNotSlaac)]

\* C11: a subnet whose type is exactly "ipv6_slaac" is skipped by
\* to_interface: the conversion gives what it gives for the same entry without
\* its ipv6_slaac subnets, the same error or the same Interface, so such a
\* subnet adds no ip_addresses entry and no route and never makes the
\* conversion fail, whatever its address, netmask and gateway hold.
C11_SlaacSkipped ==
    EntryDone =>
        /\ out.res = to_interface(C11_WithoutSlaac)
        /\ EntryOk =>
              /\ Len(Val(out.res).ip_addresses) =
                    Cardinality(StaticPlaces \ SlaacPlaces)
              /\ Len(Val(out.res).routes) = Cardinality(GatewayPlaces \ SlaacPlaces)

C11_Witness ==
    /\ EntryOk /\ Len(self.subnets) = 2
    /\ SlaacPlaces = {1} /\ StaticPlaces = {2}
    /\ self.subnets[1].address # None /\ ~IpNetwork_from_str(self.subnets[1].address[1]).ok
    /\ self.subnets[1].gateway # None /\ ~IpAddr_from_str(self.subnets[1].gateway[1]).ok
    /\ Len(Val(out.res).ip_addresses) = 1
    /\ Len(Val(out.res).routes) = Cardinality(GatewayPlaces)

\* the gateway of subnet n of entry k is present and is not an IP address
C12_BadGateway(k, n) ==
    /\ Config[k].subnets[n].gateway # None
    /\ ~IpAddr_from_str(Config[k].subnets[n].gateway[1]).ok
C12_StaticOf(k) == {n \in 1..Len(Config[k].subnets) : IsStatic(Config[k].subnets[n])}

\* C12 as stated: a malformed gateway on any subnet of any config entry makes
\* the whole networks() call fail.
C12_MalformedGatewayAnywhere ==
    ConfigDone =>
        ((\E k \in 1..Len(Config) : \E n \in 1..Len(Config[k].subnets) :
             C12_BadGateway(k, n))
           => ~out.res.ok)

\* C12: networks() returns an error without any interface, or the complete
\* topology: one Interface per physical entry, each with one address per
\* static subnet and one route per static subnet with a gateway. An entry
\* that does not convert is never dropped alone: a physical entry that fails
\* on its own, and so a malformed gateway on a static subnet of any physical
\* entry, makes the whole call fail.
C12_AllOrNothing ==
    ConfigDone =>
        /\ (\E k \in PhysicalPlaces : \E n \in C12_StaticOf(k) : C12_BadGateway(k, n))
              => ~out.res.ok
        /\ (\E k \in PhysicalPlaces : ~to_interface(Config[k]).ok) => ~out.res.ok
        /\ ~out.res.ok => out.res.val = <<>>
        /\ out.res.ok =>
              /\ Len(Val(out.res)) = Cardinality(PhysicalPlaces)
              /\ \A n \in 1..Len(Val(out.res)) :
                    LET k == C10_PhysicalOf(n)
                        gateways == {l \in C12_StaticOf(k) :
                                        Config[k].subnets[l].gateway # None}
                    IN  /\ Len(Val(out.res)[n].ip_addresses) =
                              Cardinality(C12_StaticOf(k))
                        /\ Len(Val(out.res)[n].routes) = Cardinality(gateways)

C12_Witness ==
    /\ ConfigDone /\ Len(Config) = 3 /\ PhysicalPlaces = {1, 2, 3}
    /\ to_interface(Config[1]).ok /\ to_interface(Config[2]).ok
    /\ Config[1] # Config[2]
    /\ \E n \in C12_StaticOf(3) : C12_BadGateway(3, n)
    /\ ~out.res.ok /\ out.res.val = <<>>

(***************************************************************************)
(* Properties of the unit names.                                           *)
(***************************************************************************)
NameDone == kind = "Interface" /\ out.op = "sd_network_unit_name"
NameOk == NameDone /\ out.res.ok
DevNameDone == kind = "VirtualNetDev" /\ out.op = "netdev_unit_name"
UnitName == Val(out.res)
\* the place of the first "-" of the unit name
Dash == CHOOSE k \in 1..Len(UnitName) :
            UnitName[k] = "-" /\ \A l \in 1..(k - 1) : UnitName[l] # "-"
\* the parts of the unit name: before the dash, after it, and the suffix
Prefix == SubSeq(UnitName, 1, Dash - 1)
Identifier == SubSeq(UnitName, Dash + 1, Len(UnitName) - 1)
Suffix == UnitName[Len(UnitName)]
DigitValue(c) == CHOOSE v \in 0..15 : Digits[v + 1] = c
\* the octets that a text of hex pairs separated by ":" stands for
OctetsOf(text) ==
    [k \in 1..((Len(text) + 1) \div 3) |->
        16 * DigitValue(text[3 * k - 2]) + DigitValue(text[3 * k - 1])]

\* C13: sd_network_unit_name succeeds exactly when at least one of name,
\* mac_address and path is present; the identifier of the unit name is the
\* name when there is one, else the text of the MAC address when there is
\* one, else the path, so a field of lower precedence never changes it.
C13_IdentifierPrecedence ==
    NameDone =>
        /\ out.res.ok <=>
              (self.name # None \/ self.mac_address # None \/ self.path # None)
        /\ out.res.ok =>
              /\ \E k \in 1..Len(UnitName) : UnitName[k] = "-"
              /\ Suffix = ".network"
              /\ IF self.name # None THEN Identifier = <<self.name[1]>>
                 ELSE IF self.mac_address # None
                 THEN /\ Len(Identifier) = 17
                      /\ \A k \in 1..5 : Identifier[3 * k] = ":"
                      /\ OctetsOf(Identifier) = self.mac_address[1].octets
                 ELSE Identifier = <<self.path[1]>>

C13_Witness ==
    /\ NameOk /\ self.name = None /\ self.path # None
    /\ self.mac_address = Some(MacF4)
    /\ Identifier = <<"f", "4", ":", "0", "0", ":", "3", "4", ":", "0", "9", ":",
                      "7", "3", ":", "e", "e">>

RECURSIVE C14_Value(_)
C14_Value(digits) ==
    IF digits = <<>> THEN 0
    ELSE 10 * C14_Value(SubSeq(digits, 1, Len(digits) - 1))
         + DigitValue(digits[Len(digits)])
\* the digits are the decimal text of p, padded with zeros to two digits
C14_Padded(digits, p) ==
    /\ \A k \in 1..Len(digits) : DigitValue(digits[k]) < 10
    /\ C14_Value(digits) = p
    /\ Len(digits) >= 2
    /\ Len(digits) > 2 => digits[1] # "0"

\* C14: a unit name starts with the decimal priority, padded with zeros to
\* at least two digits and never cut: for every u8 priority the name of an
\* Interface is that prefix, "-", the identifier and ".network"; the name of
\* a VirtualNetDev is the prefix of its priority, or of 10 when it has none,
\* then "-", its name and ".netdev".
C14_PriorityPrefix ==
    /\ NameOk =>
          /\ C14_Padded(Prefix, self.priority)
          /\ UnitName = Prefix \o <<"-">> \o Identifier \o <<".network">>
    /\ DevNameDone =>
          /\ C14_Padded(Prefix, IF self.priority = None THEN 10 ELSE self.priority[1])
          /\ UnitName = Prefix \o <<"-", self.name, ".netdev">>

C14_Witness ==
    /\ NameOk /\ self.priority = U8_MAX /\ self.name # None
    /\ UnitName = <<"2", "5", "5", "-", self.name[1], ".network">>

(***************************************************************************)
(* Properties of the unit texts.                                           *)
(***************************************************************************)
TextDone == kind = "Interface" /\ out.op = "config"
DevTextDone == kind = "VirtualNetDev" /\ out.op = "sd_netdev_config"
\* the lines of a text: what stands before each "\n"
RECURSIVE SplitLines(_, _, _)
SplitLines(text, from, ends) ==
    IF ends = {} THEN <<>>
    ELSE LET end == CHOOSE k \in ends : \A l \in ends : k <= l
         IN  <<SubSeq(text, from, end - 1)>> \o SplitLines(text, end + 1, ends \ {end})
TextLines ==
    SplitLines(Val(out.res), 1, {k \in 1..Len(Val(out.res)) : Val(out.res)[k] = "\n"})
IsHeader(line) == Len(line) = 3 /\ line[1] = "[" /\ line[3] = "]"
\* the sections of a text: each header with the filled lines under it
RECURSIVE Group(_, _, _)
Group(lines, k, sections) ==
    IF k > Len(lines) THEN sections
    ELSE IF IsHeader(lines[k])
    THEN Group(lines, k + 1, Append(sections, [header |-> lines[k][2], lines |-> <<>>]))
    ELSE IF lines[k] = <<>> \/ sections = <<>> THEN Group(lines, k + 1, sections)
    ELSE Group(lines, k + 1,
               [sections EXCEPT ![Len(sections)].lines = Append(@, lines[k])])
Sections == Group(TextLines, 1, <<>>)
Headers(sections) == [n \in 1..Len(sections) |-> sections[n].header]
Constant(n, v) == [k \in 1..n |-> v]
\* the first piece of every line
Keys(lines) == [k \in 1..Len(lines) |-> lines[k][1]]

\* C15: the section headers of Interface::config are [Match], [Network],
\* [Link] exactly when the interface is unmanaged or has required_for_online,
\* one [Address] per ip_addresses entry and one [Route] per routes entry, in
\* that order; [Network] holds DHCP, the DNS lines of the nameservers in
\* their order, then Bond; [Link] holds Unmanaged=yes before
\* RequiredForOnline; the k-th [Address] holds the k-th address and the k-th
\* [Route] the k-th route, Destination before Gateway.
C15_SectionOrder ==
    TextDone =>
        LET link == self.unmanaged \/ self.required_for_online # None
            first == IF link THEN 3 ELSE 2
            addrs == Len(self.ip_addresses)
            sections == Sections
        IN  /\ Headers(sections) = <<"Match", "Network">>
                                   \o (IF link THEN <<"Link">> ELSE <<>>)
                                   \o Constant(addrs, "Address")
                                   \o Constant(Len(self.routes), "Route")
            /\ Keys(sections[2].lines) =
                  (IF self.dhcp # None THEN <<"DHCP=">> ELSE <<>>)
                  \o Constant(Len(self.nameservers), "DNS=")
                  \o (IF self.bond # None THEN <<"Bond=">> ELSE <<>>)
            /\ \A k \in 1..Len(self.nameservers) :
                  sections[2].lines[k + (IF self.dhcp # None THEN 1 ELSE 0)] =
                      <<"DNS=">> \o IpAddr_to_string(self.nameservers[k])
            /\ link => Keys(sections[3].lines) =
                  (IF self.unmanaged THEN <<"Unmanaged=yes">> ELSE <<>>)
                  \o (IF self.required_for_online # None
                      THEN <<"RequiredForOnline=">> ELSE <<>>)
            /\ \A k \in 1..addrs :
                  sections[first + k].lines =
                      << <<"Address=">> \o IpNetwork_to_string(self.ip_addresses[k]) >>
            /\ \A k \in 1..Len(self.routes) :
                  sections[first + addrs + k].lines =
                      << <<"Destination=">>
                             \o IpNetwork_to_string(self.routes[k].destination),
                         <<"Gateway=">> \o IpAddr_to_string(self.routes[k].gateway) >>

C15_Witness ==
    /\ TextDone /\ self.unmanaged /\ self.required_for_online # None
    /\ self.dhcp # None /\ self.bond # None
    /\ self.nameservers = <<Ns6, Ns4>>
    /\ self.ip_addresses = <<Net4, Net6>> /\ self.routes = <<Route6, Route4>>
    /\ Headers(Sections) =
          <<"Match", "Network", "Link", "Address", "Address", "Route", "Route">>
    /\ Sections[4].lines = << <<"Address=", "1", "2", "7", ".", "0", ".", "0", ".", "1",
                                "/", "8">> >>
    /\ Sections[6].lines[2] = <<"Gateway=", ":", ":", "f", "f", "f", "f", ":",
                                "1", "9", "2", ".", "0", ".", "2", ".", "1">>

\* C16: in the text of Interface::config and of
\* VirtualNetDev::sd_netdev_config every line is ended by "\n", every section
\* header but the first has exactly one empty line right before it, every
\* empty line has a section header right after it, and the text neither
\* starts nor ends with an empty line, whatever optional fields are present.
C16_BlankLines ==
    TextDone \/ DevTextDone =>
        LET lines == TextLines
        IN  /\ Val(out.res)[Len(Val(out.res))] = "\n"
            /\ IsHeader(lines[1]) /\ lines[Len(lines)] # <<>>
            /\ \A n \in 2..Len(lines) :
                  IsHeader(lines[n]) =>
                      /\ lines[n - 1] = <<>>
                      /\ n > 2 => lines[n - 2] # <<>>
            /\ \A n \in 1..(Len(lines) - 1) :
                  lines[n] = <<>> => IsHeader(lines[n + 1])

C16_Witness ==
    /\ DevTextDone /\ Len(self.sd_netdev_sections) = 2
    /\ self.sd_netdev_sections[1].attributes = <<>>
    /\ self.sd_netdev_sections[2].attributes # <<>>
    /\ SubSeq(TextLines, 4, 8) =
          << <<"MACAddress=", "0", "0", ":", "0", "0", ":", "0", "0", ":",
               "0", "0", ":", "0", "0", ":", "0", "0">>,
             <<>>, <<"[", "Empty", "]">>, <<>>, <<"[", "Test", "]">> >>

\* C17: sd_netdev_config writes [NetDev] with Name, Kind ("bond" for Bond,
\* "vlan" for Vlan) and MACAddress in that order, then one section per
\* SdSection in list order, each with its header and its key=value lines in
\* insertion order; a section without attributes still gives its header, and
\* repeated keys and repeated section names are written as given.
C17_NetDevSections ==
    DevTextDone =>
        LET sections == Sections
            given == self.sd_netdev_sections
        IN  /\ Len(sections) = 1 + Len(given)
            /\ sections[1].header = "NetDev"
            /\ Len(sections[1].lines) = 3
            /\ sections[1].lines[1] = <<"Name=", self.name>>
            /\ sections[1].lines[2] =
                  <<"Kind=", IF self.kind = "Bond" THEN "bond" ELSE "vlan">>
            /\ sections[1].lines[3][1] = "MACAddress="
            /\ OctetsOf(Tail(sections[1].lines[3])) = self.mac_address.octets
            /\ \A n \in 1..Len(given) :
                  /\ sections[n + 1].header = given[n].name
                  /\ sections[n + 1].lines =
                        [k \in 1..Len(given[n].attributes) |->
                            <<given[n].attributes[k][1], "=", given[n].attributes[k][2]>>]

C17_Witness ==
    /\ DevTextDone /\ self.kind = "Vlan" /\ Len(self.sd_netdev_sections) = 2
    /\ Headers(Sections) = <<"NetDev", "Test", "Test">>
    /\ Sections[2].lines = << <<"foo", "=", "bar">>, <<"foo", "=", "baz">> >>
    /\ Sections[3].lines = << <<"foo", "=", "bar">>, <<"oingo", "=", "boingo">> >>
    /\ Sections[1].lines[2] = <<"Kind=", "vlan">>

(***************************************************************************)
(* Properties of the Packet attributes.                                    *)
(***************************************************************************)
AttrsDone == kind = "PacketProvider" /\ out.op = "get_attrs"
MapDone == kind = "PacketProvider" /\ out.op = "attributes"
\* the categories of addresses and the places of the addresses of each
Categories == {"V4", "V6"} \X BOOLEAN
CategoryOf(a) == <<a.address.fam, a.public>>
PlacesOf(c) == {k \in 1..Len(Addrs) : CategoryOf(Addrs[k]) = c}
KeyStart(c) ==
    IF c[1] = "V4"
    THEN (IF c[2] THEN "PACKET_IPV4_PUBLIC_" ELSE "PACKET_IPV4_PRIVATE_")
    ELSE (IF c[2] THEN "PACKET_IPV6_PUBLIC_" ELSE "PACKET_IPV6_PRIVATE_")
\* the keys of the k-th address of category c, counting from 0
AddressKey(c, k) == <<KeyStart(c)>> \o Decimal(k)
GatewayKey(c, k) == <<KeyStart(c), "GATEWAY_">> \o Decimal(k)
\* the number of addresses of the category of address n that come before it
Rank(n) == Cardinality({k \in PlacesOf(CategoryOf(Addrs[n])) : k < n})
FixedKeys == {<<"PACKET_HOSTNAME">>, <<"PACKET_PHONE_HOME_URL">>, <<"PACKET_PLAN">>}

\* C19: get_attrs counts each category (family, public or private) on its
\* own: the k-th address of a category, counting from 0, gives the keys
\* PACKET_IPV{4,6}_{PUBLIC,PRIVATE}_k and ..._GATEWAY_k with its address and
\* its gateway; a category of n addresses gives exactly the indices 0..n-1,
\* no key is pushed twice, and the map of attributes() holds every address
\* and gateway under its key.
C19_CounterPerCategory ==
    /\ AttrsDone =>
          LET attrs == Val(out.res)
          IN  /\ Len(attrs) = 2 * Len(Addrs) + 3
              /\ \A i, j \in 1..Len(attrs) : i # j => attrs[i][1] # attrs[j][1]
              /\ {attrs[i][1] : i \in 1..Len(attrs)} =
                    FixedKeys
                    \cup UNION {{AddressKey(c, k), GatewayKey(c, k)} :
                                   <<c, k>> \in {<<d, l>> \in Categories \X (0..Len(Addrs)) :
                                                    l < Cardinality(PlacesOf(d))}}
              /\ \A n \in 1..Len(Addrs) :
                    /\ attrs[2 * n - 1] = <<AddressKey(CategoryOf(Addrs[n]), Rank(n)),
                                            IpAddr_to_string(Addrs[n].address)>>
                    /\ attrs[2 * n] = <<GatewayKey(CategoryOf(Addrs[n]), Rank(n)),
                                        IpAddr_to_string(Addrs[n].gateway)>>
    /\ MapDone =>
          LET map == Val(out.res)
          IN  /\ Cardinality(DOMAIN map) = 2 * Len(Addrs) + 3
              /\ \A n \in 1..Len(Addrs) :
                    /\ map[AddressKey(CategoryOf(Addrs[n]), Rank(n))] =
                          IpAddr_to_string(Addrs[n].address)
                    /\ map[GatewayKey(CategoryOf(Addrs[n]), Rank(n))] =
                          IpAddr_to_string(Addrs[n].gateway)

C19_Witness ==
    /\ MapDone /\ Len(Addrs) = 3
    /\ CategoryOf(Addrs[1]) = <<"V4", TRUE>> /\ CategoryOf(Addrs[2]) = <<"V4", FALSE>>
    /\ CategoryOf(Addrs[3]) = <<"V4", TRUE>> /\ Addrs[1] # Addrs[3]
    /\ Val(out.res)[<<"PACKET_IPV4_PUBLIC_", "1">>] = IpAddr_to_string(Addrs[3].address)
    /\ Val(out.res)[<<"PACKET_IPV4_PRIVATE_", "0">>] = IpAddr_to_string(Addrs[2].address)
    /\ <<"PACKET_IPV4_PRIVATE_", "1">> \notin DOMAIN Val(out.res)

\* the places of the descriptors that carry a bond tag for the first time
FirstPlaces == {k \in Tagged : \A l \in Tagged : l < k => Descs[l].bond # Descs[k].bond}
FirstPlace(n) == CHOOSE k \in FirstPlaces : Cardinality({l \in FirstPlaces : l <= k}) = n

\* C20: a successful parse_network on metadata with at least one bond tag
\* returns the physical interfaces in declaration order, then one bond
\* Interface (priority 5, required_for_online "degraded-carrier") per
\* distinct tag in the order the tags first appear, then the fallback; the
\* VirtualNetDev list has one device per bond in the same order, each of kind
\* Bond with priority 5, the name of the bond and the MAC address of the first
\* physical descriptor that carries the tag.
C20_TopologyOrder ==
    PacketOk /\ Tagged # {} =>
        LET physical == Len(Descs)
            bonds == Cardinality(FirstPlaces)
        IN  /\ Len(Ifaces) = physical + bonds + 1
            /\ \A k \in 1..physical :
                  /\ Ifaces[k].mac_address # None
                  /\ Ifaces[k].mac_address[1].octets = Descs[k].mac
                  /\ Ifaces[k].bond = Descs[k].bond
                  /\ Ifaces[k].priority = 10
            /\ \A n \in 1..bonds :
                  /\ Ifaces[physical + n].name = Descs[FirstPlace(n)].bond
                  /\ Ifaces[physical + n].priority = 5
                  /\ Ifaces[physical + n].required_for_online = Some("degraded-carrier")
            /\ IsFallback(Ifaces[physical + bonds + 1])
            /\ Len(Devs) = bonds
            /\ \A n \in 1..bonds :
                  /\ Devs[n].kind = "Bond"
                  /\ Devs[n].priority = Some(5)
                  /\ Some(Devs[n].name) = Ifaces[physical + n].name
                  /\ Devs[n].mac_address.octets = Descs[FirstPlace(n)].mac

C20_Witness ==
    /\ PacketOk /\ Len(Descs) = 2
    /\ Descs[1].bond = Some("bond0") /\ Descs[2].bond = Some("bond0")
    /\ Descs[1].mac # Descs[2].mac
    /\ Len(Ifaces) = 4 /\ Len(Devs) = 1
    /\ Ifaces[3].name = Some("bond0") /\ IsFallback(Ifaces[4])
    /\ Devs[1].mac_address.octets = Descs[1].mac

\* the same order with two tags: the bond of the tag met first comes first
C20_TwoTags ==
    /\ PacketOk /\ Len(Descs) = 2
    /\ Descs[1].bond = Some("bond1") /\ Descs[2].bond = Some("bond0")
    /\ Ifaces[3].name = Some("bond1") /\ Ifaces[4].name = Some("bond0")
    /\ Devs[1].name = "bond1" /\ Devs[2].name = "bond0"

\* the nameserver entries that hold an address that is not an IP address
BadNameserverPlaces ==
    {k \in NameserverPlaces :
        \E n \in 1..Len(Config[k].address) : ~IpAddr_from_str(Config[k].address[n]).ok}

\* C21: networks() parses the addresses of the nameserver entry only when at
\* least one physical interface was built: with one nameserver entry holding
\* a malformed address, the call succeeds with an empty interface list when
\* there is no physical entry, and fails when there is at least one, with the
\* address error when every physical entry converts.
C21_NameserversNeedInterface ==
    ConfigDone /\ Cardinality(NameserverPlaces) = 1 /\ BadNameserverPlaces # {} =>
        IF PhysicalPlaces = {}
        THEN out.res.ok /\ Val(out.res) = <<>>
        ELSE /\ ~out.res.ok
             /\ (\A k \in PhysicalPlaces : to_interface(Config[k]).ok) =>
                   out.res.err =
                      IpAddr_from_str(Config[CHOOSE k \in NameserverPlaces : TRUE].address[1]).err

C21_Witness ==
    /\ ConfigDone /\ Len(Config) = 2
    /\ BadNameserverPlaces = {1} /\ Config[2].network_type = "bridge"
    /\ out.res.ok /\ Val(out.res) = <<>>

\* the same nameserver entry next to a physical entry that converts
C21_WitnessFailure ==
    /\ ConfigDone /\ Len(Config) = 2
    /\ BadNameserverPlaces = {2} /\ PhysicalPlaces = {1}
    /\ to_interface(Config[1]).ok
    /\ ~out.res.ok

====
